---- MODULE Spec2Model ----
(***************************************************************************)
(* reactrix-store: content-addressed data store, sequenced event log and   *)
(* the ZeroMQ publish worker, modelled from src/src/*.rs.                  *)
(*                                                                         *)
(* Every database call is one atomic step that either answers or fails     *)
(* (connection, pool or driver error); request handlers run concurrently   *)
(* and interleave between their database calls.                            *)
(***************************************************************************)
EXTENDS Integers, Sequences, FiniteSets, TLC

(***************************************************************************)
(* Bounds of the model.                                                    *)
(***************************************************************************)
MaxData == 3
DigestSpace == 3

\* The byte strings handlers are called with: the binary digits of
\* 0..MaxData, least significant first (<<>>, <<1>>, <<0,1>>, <<1,1>>, ...).
RECURSIVE BytesOf(_)
BytesOf(k) == IF k = 0 THEN <<>> ELSE <<k % 2>> \o BytesOf(k \div 2)

Datas == {BytesOf(k) : k \in 0..MaxData}
DataClients == {"h1", "h2"}

(***************************************************************************)
(* Results: std::result::Result<T, DataStoreError / EventStoreError>.      *)
(* The text carried by Database(..) is not modelled.                       *)
(***************************************************************************)
Ok(v) == [tag |-> "Ok", val |-> v]
NoRecord == [tag |-> "NoRecord", val |-> <<>>]
Collision(hex) == [tag |-> "Collision", val |-> hex]
Database == [tag |-> "Database", val |-> <<>>]

\* event_put's error_response "Created but couldn't notify" (main.rs).
NotNotified == [tag |-> "NotNotified", val |-> <<>>]

(***************************************************************************)
(* Blake2s::digest: a deterministic digest of the bytes.  The digest is    *)
(* cut down to one byte out of DigestSpace values, so that distinct inputs *)
(* with equal digests exist within the bounds.                             *)
(***************************************************************************)
RECURSIVE DigestFold(_, _)
DigestFold(h, data) ==
    IF data = <<>> THEN h
    ELSE DigestFold((2 * h + Head(data) + 1) % DigestSpace, Tail(data))

Blake2s_digest(data) == << DigestFold(0, data) >>

Hashes == {<<h>> : h \in 0..(DigestSpace - 1)}

(***************************************************************************)
(* hex::encode / hex::decode.  A string is the sequence of its character   *)
(* codes; a byte becomes two lowercase hexadecimal digits.                 *)
(***************************************************************************)
HexDigit(n) == IF n < 10 THEN 48 + n ELSE 87 + n

RECURSIVE hex_encode(_)
hex_encode(bytes) ==
    IF bytes = <<>> THEN <<>>
    ELSE << HexDigit(Head(bytes) \div 16), HexDigit(Head(bytes) % 16) >>
             \o hex_encode(Tail(bytes))

IsHexChar(c) == (c \in 48..57) \/ (c \in 97..102) \/ (c \in 65..70)
HexVal(c) == IF c \in 48..57 THEN c - 48
             ELSE IF c \in 97..102 THEN c - 87 ELSE c - 55

RECURSIVE HexPairs(_)
HexPairs(s) ==
    IF s = <<>> THEN <<>>
    ELSE << 16 * HexVal(s[1]) + HexVal(s[2]) >> \o HexPairs(SubSeq(s, 3, Len(s)))

hex_decode(s) ==
    IF Len(s) % 2 # 0 \/ \E i \in 1..Len(s) : ~IsHexChar(s[i])
    THEN [tag |-> "Err", val |-> <<>>]
    ELSE Ok(HexPairs(s))

VARIABLES
    datastoreImpl,  \* which DataStore serves the process
    pg_datastore,   \* relational table datastore: rows (hash, data)
    mongo_data,     \* document collection "data": docs {_id, data}
    dpc,            \* per handler: "idle", or "insert" inside store()
    dreq,           \* per handler: the store() call in progress
    dlast,          \* the last completed data request and its outcome
    okStores        \* <<data, hash>> of every store(data) that returned Ok(hash)

dvars == <<datastoreImpl, pg_datastore, mongo_data, dpc, dreq, dlast,
           okStores>>

VARIABLES
    eventstoreImpl,  \* which EventStore serves the process
    pg_events,       \* relational table events: rows (sequence, version, data, timestamp)
    pg_events_seq,   \* the serial behind events.sequence: the next value
    mongo_counters,  \* document collection "counters"
    mongo_events,    \* document collection "events"
    clock,           \* the time source of timestamps
    epc,             \* per handler: "idle", "insert", "send", "panicked"
    ereq,            \* per handler: the event_put call in progress
    elast,           \* the last completed event request and its outcome
    appendLog,       \* successful store() calls, in order of return
    started,         \* event_put requests accepted so far
    queue,           \* the mpsc channel of PublishMessage
    transport,       \* message parts the PUB socket has taken, in order
    forwards,        \* message_post requests accepted so far
    monitorFeed,     \* events waiting on the inproc://monitor pair socket
    monitorLog,      \* what poll_monitor has logged
    connects,        \* subscriber connections accepted so far
    acceptedAt,      \* per accepted connection: messages sent, sequence
                     \* frames completed and inputs taken before it
    worker,          \* the publish thread: "running", or "exited" (rx dropped)
    enqueued         \* every PublishMessage sent into the channel, in order

evars == <<eventstoreImpl, pg_events, pg_events_seq, mongo_counters,
           mongo_events, clock, epc, ereq, elast, appendLog, started>>
bvars == <<queue, transport, forwards, monitorFeed, monitorLog, connects,
           acceptedAt, worker, enqueued>>
vars == <<dvars, evars, bvars>>

(***************************************************************************)
(* Relational backend: table datastore(hash PRIMARY KEY, data).            *)
(***************************************************************************)
PgRowsFor(table, id) == {row \in table : row.hash = id}

\* datastore.rs DataStore::retrieve: first row with that hash, NotFound
\* becomes NoRecord, any other diesel error becomes Database.
DataStore_retrieve(table, id, fault) ==
    IF fault THEN Database
    ELSE IF PgRowsFor(table, id) = {} THEN NoRecord
    ELSE Ok((CHOOSE row \in PgRowsFor(table, id) : TRUE).data)

\* Mutant: the query selects the hash column instead of the data column.
PostgresDataStore_retrieve_hashcol(table, id, fault) ==
    IF fault THEN Database
    ELSE IF PgRowsFor(table, id) = {} THEN NoRecord
    ELSE Ok((CHOOSE row \in PgRowsFor(table, id) : TRUE).hash)

\* datastore/postgres.rs PostgresDataStore::retrieve: the same query on a
\* pooled connection; a pool error (self.0.get()?) is a Database error too.
PostgresDataStore_retrieve(table, id, fault) ==
    IF fault THEN Database
    ELSE IF PgRowsFor(table, id) = {} THEN NoRecord
    ELSE Ok((CHOOSE row \in PgRowsFor(table, id) : TRUE).data)

\* Mutant: the table has no key on hash, every insert adds its row.
PgInsertData_nokey(table, hash, data, fault) ==
    IF fault THEN [table |-> table, res |-> Database]
    ELSE [table |-> table \cup {[hash |-> hash, data |-> data]},
          res |-> Ok(hash)]

\* insert_into(datastore).values(Data {hash, data}).get_result(): the row
\* is added and returned, unless the call fails or the key is taken.
PgInsertData(table, hash, data, fault) ==
    IF fault \/ PgRowsFor(table, hash) # {}
    THEN [table |-> table, res |-> Database]
    ELSE [table |-> table \cup {[hash |-> hash, data |-> data]},
          res |-> Ok(hash)]

(***************************************************************************)
(* Document backend: collection "data", documents {_id: hex, data: bin}.   *)
(***************************************************************************)
MongoDocsFor(coll, hexid) == {doc \in coll : doc._id = hexid}

\* Document::get_binary_generic: the bytes of a Binary value of the
\* generic subtype, a ValueAccessError (-> Database) otherwise.
get_binary_generic(doc, key) ==
    IF key \in DOMAIN doc /\ doc[key][1] = "Generic"
    THEN Ok(doc[key][2])
    ELSE Database

\* Mutant: an empty find_one answer is reported like a driver error.
MongoDataStore_retrieve_nonefault(coll, id, fault) ==
    LET hash == hex_encode(id)
        found == MongoDocsFor(coll, hash)
    IN  IF fault \/ found = {} THEN Database
        ELSE get_binary_generic(CHOOSE d \in found : TRUE, "data")

\* Mutant: the filter is {_id: hash}, the bytes and not their hex string.
MongoDataStore_retrieve_rawid(coll, id, fault) ==
    LET found == MongoDocsFor(coll, id)
    IN  IF fault THEN Database
        ELSE IF found = {} THEN NoRecord
        ELSE get_binary_generic(CHOOSE d \in found : TRUE, "data")

MongoDataStore_retrieve(coll, id, fault) ==
    LET hash == hex_encode(id)
        found == MongoDocsFor(coll, hash)
    IN  IF fault THEN Database
        ELSE IF found = {} THEN NoRecord
        ELSE LET doc == CHOOSE d \in found : TRUE
             IN  IF "$err" \in DOMAIN doc THEN Database
                 ELSE get_binary_generic(doc, "data")

\* Mutant: the document is written with replace/upsert instead of insert.
MongoInsertData_upsert(coll, hash, data, fault) ==
    IF fault THEN [table |-> coll, res |-> Database]
    ELSE [table |-> (coll \ MongoDocsFor(coll, hex_encode(hash)))
                        \cup {[_id |-> hex_encode(hash),
                                data |-> <<"Generic", data>>]},
          res |-> Ok(hash)]

\* insert_one(doc! {"_id": hex::encode(hash), "data": (Generic, data)}):
\* _id is unique, a second document with it is refused.
MongoInsertData(coll, hash, data, fault) ==
    IF fault \/ MongoDocsFor(coll, hex_encode(hash)) # {}
    THEN [table |-> coll, res |-> Database]
    ELSE [table |-> coll \cup {[_id |-> hex_encode(hash),
                                data |-> <<"Generic", data>>]},
          res |-> Ok(hash)]

(***************************************************************************)
(* The existence check shared by the store implementations:                *)
(* Ok(true) for the same bytes, Collision for other bytes under the hash,  *)
(* Ok(false) when there is no record, the error otherwise.                 *)
(***************************************************************************)
entry_exists(retrieved, hash, data) ==
    IF retrieved.tag = "Ok"
    THEN IF retrieved.val = data THEN Ok(TRUE)
         ELSE Collision(hex_encode(hash))
    ELSE IF retrieved.tag = "NoRecord" THEN Ok(FALSE)
    ELSE retrieved

(***************************************************************************)
(* store(), first half: up to the decision to insert.                      *)
(* [next |-> "return", res] ends the call, [next |-> "insert"] goes on.    *)
(***************************************************************************)
\* Mutant: an existing record counts as a duplicate without comparing bytes.
DataStore_store_lookup_nocompare(table, data, fault) ==
    LET hash == Blake2s_digest(data)
        r == DataStore_retrieve(table, hash, fault)
    IN  IF r.tag = "Ok" THEN [next |-> "return", res |-> Ok(hash)]
        ELSE [next |-> "insert", res |-> r]

\* datastore.rs DataStore::store, lines 50-56: `if let Ok(stored)`.
DataStore_store_lookup(table, data, fault) ==
    LET hash == Blake2s_digest(data)
        r == DataStore_retrieve(table, hash, fault)
    IN  IF r.tag = "Ok"
        THEN [next |-> "return",
              res |-> IF data = r.val THEN Ok(hash)
                      ELSE Collision(hex_encode(hash))]
        ELSE [next |-> "insert", res |-> r]

BackendStoreLookup(retrieved, data) ==
    LET hash == Blake2s_digest(data)
        e == entry_exists(retrieved, hash, data)
    IN  IF e.tag = "Ok"
        THEN IF e.val THEN [next |-> "return", res |-> Ok(hash)]
             ELSE [next |-> "insert", res |-> NoRecord]
        ELSE [next |-> "return", res |-> e]

PostgresDataStore_store_lookup(table, data, fault) ==
    BackendStoreLookup(
        PostgresDataStore_retrieve(table, Blake2s_digest(data), fault), data)

MongoDataStore_store_lookup(coll, data, fault) ==
    BackendStoreLookup(
        MongoDataStore_retrieve(coll, Blake2s_digest(data), fault), data)

\* store(), second half: the insert and the value returned.
DataStore_store_insert(table, data, fault) ==
    PgInsertData(table, Blake2s_digest(data), data, fault)

PostgresDataStore_store_insert(table, data, fault) ==
    PgInsertData(table, Blake2s_digest(data), data, fault)

MongoDataStore_store_insert(coll, data, fault) ==
    MongoInsertData(coll, Blake2s_digest(data), data, fault)

(***************************************************************************)
(* Dispatch on the implementation chosen at startup (init_stores).         *)
(***************************************************************************)
DataImpls == {"DataStore", "PostgresDataStore", "MongoDataStore"}

Retrieve(id, fault) ==
    CASE datastoreImpl = "DataStore" ->
            DataStore_retrieve(pg_datastore, id, fault)
      [] datastoreImpl = "PostgresDataStore" ->
            PostgresDataStore_retrieve(pg_datastore, id, fault)
      [] datastoreImpl = "MongoDataStore" ->
            MongoDataStore_retrieve(mongo_data, id, fault)

StoreLookup(data, fault) ==
    CASE datastoreImpl = "DataStore" ->
            DataStore_store_lookup(pg_datastore, data, fault)
      [] datastoreImpl = "PostgresDataStore" ->
            PostgresDataStore_store_lookup(pg_datastore, data, fault)
      [] datastoreImpl = "MongoDataStore" ->
            MongoDataStore_store_lookup(mongo_data, data, fault)

StoreInsert(data, fault) ==
    CASE datastoreImpl = "DataStore" ->
            DataStore_store_insert(pg_datastore, data, fault)
      [] datastoreImpl = "PostgresDataStore" ->
            PostgresDataStore_store_insert(pg_datastore, data, fault)
      [] datastoreImpl = "MongoDataStore" ->
            MongoDataStore_store_insert(mongo_data, data, fault)

\* The records of the store in use, as <<hash, data>> pairs read straight
\* off the table (no query, no decoding by the store's own code).
Records ==
    IF datastoreImpl = "MongoDataStore"
    THEN {<<doc._id, doc.data[2]>> : doc \in mongo_data}
    ELSE {<<hex_encode(row.hash), row.data>> : row \in pg_datastore}

StoredUnder(hash) == {r[2] : r \in {x \in Records : x[1] = hex_encode(hash)}}

(***************************************************************************)
(* The HTTP handlers of the content store (main.rs data_put, data_get).    *)
(***************************************************************************)
NoReq == [data |-> <<>>, pre |-> {}, fault |-> FALSE]

\* Ids a client may send to GET /v1/data/<id>: the hex form of every digest,
\* a string with a character that is no hex digit, one of odd length.
HexIds == {hex_encode(h) : h \in Hashes} \cup {<<122, 122>>, <<48>>}

DataInit ==
    /\ pg_datastore = {}
    /\ mongo_data = {}
    /\ dpc = [c \in DataClients |-> "idle"]
    /\ dreq = [c \in DataClients |-> NoReq]
    /\ dlast = [tick |-> 0, op |-> "none", arg |-> <<>>, pre |-> {},
                fault |-> FALSE, res |-> NoRecord, status |-> 0]
    /\ okStores = {}

SetTable(table) ==
    IF datastoreImpl = "MongoDataStore"
    THEN mongo_data' = table /\ UNCHANGED pg_datastore
    ELSE pg_datastore' = table /\ UNCHANGED mongo_data

\* data_put's reply: 200 with hex::encode(hash), or 500.
StoreReturn(data, pre, fault, res) ==
    /\ dlast' = [tick |-> 1 - dlast.tick, op |-> "store", arg |-> data,
                 pre |-> pre, fault |-> fault, res |-> res,
                 status |-> IF res.tag = "Ok" THEN 200 ELSE 500]
    /\ okStores' = IF res.tag = "Ok" THEN okStores \cup {<<data, res.val>>}
                   ELSE okStores

\* PUT /v1/data, up to the end of the existence check.
DataPutLookup(c, data, fault) ==
    /\ dpc[c] = "idle"
    /\ LET step == StoreLookup(data, fault)
           pre == StoredUnder(Blake2s_digest(data))
       IN  IF step.next = "insert"
           THEN /\ dpc' = [dpc EXCEPT ![c] = "insert"]
                /\ dreq' = [dreq EXCEPT ![c] =
                              [data |-> data, pre |-> pre, fault |-> fault]]
                /\ UNCHANGED <<dlast, okStores>>
           ELSE /\ StoreReturn(data, pre, fault, step.res)
                /\ UNCHANGED <<dpc, dreq>>
    /\ UNCHANGED <<datastoreImpl, pg_datastore, mongo_data>>
    /\ UNCHANGED <<evars, bvars>>

\* PUT /v1/data, the insert and the reply.
DataPutInsert(c, fault) ==
    /\ dpc[c] = "insert"
    /\ LET ins == StoreInsert(dreq[c].data, fault)
       IN  /\ SetTable(ins.table)
           /\ StoreReturn(dreq[c].data, dreq[c].pre,
                          dreq[c].fault \/ fault, ins.res)
    /\ dpc' = [dpc EXCEPT ![c] = "idle"]
    /\ dreq' = [dreq EXCEPT ![c] = NoReq]
    /\ UNCHANGED datastoreImpl
    /\ UNCHANGED <<evars, bvars>>

\* GET /v1/data/<id>: 400 for an id that is no hex string, else the bytes,
\* 404 for NoRecord, 500 for any other error.
DataGet(c, id, fault) ==
    /\ dpc[c] = "idle"
    /\ LET hash == hex_decode(id)
           res == Retrieve(hash.val, fault)
       IN  dlast' =
             IF hash.tag # "Ok"
             THEN [tick |-> 1 - dlast.tick, op |-> "bad_request", arg |-> id,
                   pre |-> {}, fault |-> FALSE, res |-> NoRecord,
                   status |-> 400]
             ELSE [tick |-> 1 - dlast.tick, op |-> "retrieve",
                   arg |-> hash.val, pre |-> StoredUnder(hash.val),
                   fault |-> fault, res |-> res,
                   status |-> CASE res.tag = "Ok" -> 200
                                [] res.tag = "NoRecord" -> 404
                                [] OTHER -> 500]
    /\ UNCHANGED <<datastoreImpl, pg_datastore, mongo_data, dpc, dreq,
                   okStores>>
    /\ UNCHANGED <<evars, bvars>>

DataNext ==
    \/ \E c \in DataClients, d \in Datas, f \in BOOLEAN : DataPutLookup(c, d, f)
    \/ \E c \in DataClients, f \in BOOLEAN : DataPutInsert(c, f)
    \/ \E c \in DataClients, id \in HexIds, f \in BOOLEAN : DataGet(c, id, f)

(***************************************************************************)
(* Content store claims.                                                   *)
(***************************************************************************)
\* This step ends a request of the given kind.
DataCompletes(op) == dlast'.tick # dlast.tick /\ dlast'.op = op

EverStored == {p[2] : p \in okStores}

\* C2: a store(d) called while d is already stored returns the hash every
\* earlier successful store(d) returned (Ok, never Collision; a Database
\* error only when the backend call itself failed) and leaves the set of
\* stored records as it was.
C2_StoreIdempotent ==
    [][ (DataCompletes("store") /\ dlast'.arg \in dlast'.pre) =>
          /\ Records' = Records
          /\ dlast'.res = IF dlast'.fault THEN Database
                          ELSE Ok(Blake2s_digest(dlast'.arg))
          /\ \A p \in okStores :
                (p[1] = dlast'.arg /\ dlast'.res.tag = "Ok")
                    => dlast'.res.val = p[2]
      ]_dvars

C2_Witness ==
    /\ dlast.op = "store" /\ dlast.arg \in dlast.pre
    /\ dlast.res = Ok(Blake2s_digest(dlast.arg))
    /\ dlast.status = 200
    /\ Cardinality(Records) >= 2

\* C3: a store(d2) called while other bytes d1 are stored under the hash of
\* d2 fails with Collision carrying the hex hash (with Database when the
\* backend call itself failed), writes nothing, and retrieve of that hash
\* still returns d1 afterwards.
C3_CollisionDetected ==
    [][ (DataCompletes("store") /\ dlast'.pre # {}
            /\ dlast'.arg \notin dlast'.pre) =>
          /\ dlast'.res = IF dlast'.fault THEN Database
                          ELSE Collision(hex_encode(Blake2s_digest(dlast'.arg)))
          /\ Records' = Records
          /\ \A d1, d2 \in Datas :
                (d1 \in dlast'.pre /\ d2 = dlast'.arg) =>
                    (Retrieve(Blake2s_digest(d2), FALSE))' = Ok(d1)
      ]_dvars

C3_Witness ==
    /\ dlast.op = "store" /\ dlast.pre # {} /\ dlast.arg \notin dlast.pre
    /\ dlast.res.tag = "Collision"
    /\ dlast.status = 500

\* C4: once store(d) has returned hash h, retrieve(h) returns exactly d in
\* every later state, whatever stores and retrieves happened in between
\* (a retrieve whose backend call fails returns Database instead).
C4_RoundTrip ==
    /\ \A p \in okStores :
          /\ p[2] = Blake2s_digest(p[1])
          /\ Retrieve(p[2], FALSE) = Ok(p[1])
          /\ Retrieve(p[2], TRUE) = Database
    /\ (dlast.op = "retrieve" /\ dlast.arg \in EverStored /\ ~dlast.fault) =>
          /\ dlast.res.tag = "Ok"
          /\ <<dlast.res.val, dlast.arg>> \in okStores

C4_Witness ==
    /\ dlast.op = "retrieve" /\ dlast.res.tag = "Ok"
    /\ dlast.res.val # <<>>
    /\ <<dlast.res.val, dlast.arg>> \in okStores
    /\ Cardinality(okStores) >= 2
    /\ \E c \in DataClients : dpc[c] = "insert"

\* C5: retrieve(h) of a hash under which no store has succeeded fails with
\* NoRecord (404), which is not the Database error (500) that a failing
\* backend call gives, and leaves the records as they were.
C5_RetrieveMiss ==
    [][ (DataCompletes("retrieve") /\ dlast'.arg \notin EverStored) =>
          /\ dlast'.res = IF dlast'.fault THEN Database ELSE NoRecord
          /\ dlast'.status = IF dlast'.fault THEN 500 ELSE 404
          /\ NoRecord # Database
          /\ Records' = Records
      ]_dvars

C5_Witness ==
    /\ dlast.op = "retrieve" /\ dlast.arg \notin EverStored
    /\ dlast.res = NoRecord /\ dlast.status = 404
    /\ okStores # {}

(***************************************************************************)
(* EVENT LOG AND PUBLISH WORKER                                            *)
(***************************************************************************)
MaxEvents == 2
MaxForwards == 1
MaxConnects == 1

Writers == {"w1", "w2"}

\* NewEvent {version, data}: the bodies PUT /v1/event is called with.
NewEvents == {[version |-> 1, data |-> [k |-> "v"]],
              [version |-> 2, data |-> [k |-> "w"]]}

EventImpls == {"PostgresEventStore", "MongoEventStore"}


(***************************************************************************)
(* Relational backend: events(sequence BIGSERIAL, version, data,           *)
(* timestamp).  The insert draws the next value of the serial; a statement *)
(* that fails after drawing it leaves a gap.                               *)
(***************************************************************************)
PgEventsFor(table, id) == {row \in table : row.sequence = id}

\* Mutant: the sequence is not drawn from the serial (it stays where it is).
PostgresEventStore_store_stuck(table, serial, now, event, fault) ==
    IF fault # "none" THEN [table |-> table, serial |-> serial, res |-> Database]
    ELSE [table |-> table \cup {[sequence |-> serial, version |-> event.version,
                                 data |-> event.data, timestamp |-> now]},
          serial |-> serial, res |-> Ok(serial)]

\* impl From<DieselError> for EventStoreError: NotFound becomes NoRecord,
\* every other diesel error (a unique violation among them) Database.
EventStoreError_from(error) ==
    IF error = "NotFound" THEN NoRecord ELSE Database

\* eventstore/postgres.rs PostgresEventStore::store.  fault: "none", "pool"
\* (self.0.get()? fails, nothing sent), "statement" (the insert fails),
\* "unique" (the insert is refused with a unique violation on sequence).
PostgresEventStore_store(table, serial, now, event, fault) ==
    CASE fault = "pool" ->
            [table |-> table, serial |-> serial, res |-> Database]
      [] fault = "statement" ->
            [table |-> table, serial |-> serial + 1, res |-> Database]
      [] fault = "unique" ->
            [table |-> table, serial |-> serial + 1,
             res |-> EventStoreError_from("UniqueViolation")]
      [] OTHER ->
            LET result == [sequence |-> serial, version |-> event.version,
                           data |-> event.data, timestamp |-> now]
            IN  [table |-> table \cup {result}, serial |-> serial + 1,
                 res |-> Ok(result.sequence)]

\* Mutant: the filter is sequence >= id, newest first.
PostgresEventStore_retrieve_ge(table, id, fault) ==
    LET rows == {row \in table : row.sequence >= id}
    IN  IF fault THEN Database
        ELSE IF rows = {} THEN NoRecord
        ELSE Ok(CHOOSE row \in rows : \A o \in rows : o.sequence <= row.sequence)

\* Mutant: NotFound is not told apart from the other diesel errors.
PostgresEventStore_retrieve_nomap(table, id, fault) ==
    IF fault \/ PgEventsFor(table, id) = {} THEN Database
    ELSE Ok(CHOOSE row \in PgEventsFor(table, id) : TRUE)

\* PostgresEventStore::retrieve with From<DieselError>: NotFound becomes
\* NoRecord, everything else Database.
PostgresEventStore_retrieve(table, id, fault) ==
    IF fault THEN Database
    ELSE IF PgEventsFor(table, id) = {} THEN NoRecord
    ELSE Ok(CHOOSE row \in PgEventsFor(table, id) : TRUE)

(***************************************************************************)
(* Document backend.  BSON values are <<type, value>> pairs.               *)
(***************************************************************************)
\* Document::get_i64 / get_i32 / get_document / get_utc_datetime: the value
\* when the key is present with that type, a ValueAccessError otherwise.
bson_get(doc, key, type) ==
    IF key \in DOMAIN doc /\ doc[key][1] = type
    THEN Ok(doc[key][2])
    ELSE Database

\* bson::to_bson(&event): a Document with the fields of NewEvent.
to_bson(event) ==
    <<"Document", [version |-> <<"I32", event.version>>,
                   data |-> <<"Document", event.data>>]>>

\* Mutant: the counter is read with find_one, nothing is incremented.
MongoEventStore_store_counter_noinc(counters, fault) ==
    LET found == {doc \in counters : doc._id = "events"}
    IN  IF fault THEN [counters |-> counters, next |-> "return", res |-> Database]
        ELSE IF found = {}
        THEN [counters |-> counters, next |-> "panic", res |-> Database]
        ELSE [counters |-> counters, next |-> "insert",
              res |-> bson_get(CHOOSE d \in found : TRUE, "sequence", "I64")]

\* find_one_and_update({_id: "events"}, {$inc: {sequence: 1}}, None): the
\* counter document as it was BEFORE the update (the driver's default), or
\* None when there is no such document; then .unwrap().get_i64("sequence").
MongoEventStore_store_counter(counters, fault) ==
    LET found == {doc \in counters : doc._id = "events"}
    IN  IF fault THEN [counters |-> counters, next |-> "return", res |-> Database]
        ELSE IF found = {}
        THEN [counters |-> counters, next |-> "panic", res |-> Database]
        ELSE LET doc == CHOOSE d \in found : TRUE
                 inc == [doc EXCEPT !.sequence = <<doc.sequence[1], doc.sequence[2] + 1>>]
                 sequence == bson_get(doc, "sequence", "I64")
             IN  [counters |-> (counters \ {doc}) \cup {inc},
                  next |-> IF sequence.tag = "Ok" THEN "insert" ELSE "return",
                  res |-> sequence]

\* Mutant: the document is stored with the counter's value after the
\* increment, while the value before it is returned.
MongoEventStore_store_insert_postinc(coll, sequence, now, event, fault) ==
    IF fault # "none" THEN [table |-> coll, res |-> Database]
    ELSE [table |-> coll \cup
              {[version |-> to_bson(event)[2].version,
                data |-> to_bson(event)[2].data,
                sequence |-> <<"I64", sequence + 1>>,
                timestamp |-> <<"UtcDatetime", now>>]},
          res |-> Ok(sequence)]

\* Mutant: the result of insert_one is dropped, Ok(sequence) is returned
\* whether or not the document was stored.
MongoEventStore_store_insert_unchecked(coll, sequence, now, event, fault) ==
    IF fault = "bson" THEN [table |-> coll, res |-> Database]
    ELSE IF fault = "insert" THEN [table |-> coll, res |-> Ok(sequence)]
    ELSE [table |-> coll \cup
              {[version |-> to_bson(event)[2].version,
                data |-> to_bson(event)[2].data,
                sequence |-> <<"I64", sequence>>,
                timestamp |-> <<"UtcDatetime", now>>]},
          res |-> Ok(sequence)]

\* The rest of MongoEventStore::store: the event document gets its sequence
\* and timestamp and is inserted.  fault: "none", "bson" (to_bson fails or
\* gives no Document), "insert" (insert_one fails).
MongoEventStore_store_insert(coll, sequence, now, event, fault) ==
    LET b == to_bson(event)
    IN  IF fault # "none" \/ b[1] # "Document"
        THEN [table |-> coll, res |-> Database]
        ELSE [table |-> coll \cup
                  {[version |-> b[2].version, data |-> b[2].data,
                    sequence |-> <<"I64", sequence>>,
                    timestamp |-> <<"UtcDatetime", now>>]},
              res |-> Ok(sequence)]

\* MongoEventStore::retrieve.
MongoEventStore_retrieve(coll, id, fault) ==
    LET found == {doc \in coll : doc.sequence = <<"I64", id>>}
    IN  IF fault THEN Database
        ELSE IF found = {} THEN NoRecord
        ELSE LET doc == CHOOSE d \in found : TRUE
                 sequence == bson_get(doc, "sequence", "I64")
                 version == bson_get(doc, "version", "I32")
                 data == bson_get(doc, "data", "Document")
                 timestamp == bson_get(doc, "timestamp", "UtcDatetime")
             IN  IF "$err" \in DOMAIN doc THEN Database
                 ELSE IF sequence.tag # "Ok" \/ version.tag # "Ok"
                         \/ data.tag # "Ok" \/ timestamp.tag # "Ok"
                 THEN Database
                 ELSE Ok([sequence |-> sequence.val, version |-> version.val,
                          data |-> data.val, timestamp |-> timestamp.val])

EventRetrieve(id, fault) ==
    IF eventstoreImpl = "MongoEventStore"
    THEN MongoEventStore_retrieve(mongo_events, id, fault)
    ELSE PostgresEventStore_retrieve(pg_events, id, fault)

\* EventStore::sequence, called by sequence_get: the highest sequence an
\* event has been stored with (0 for an empty log).
SetMax(S) == IF S = {} THEN 0 ELSE CHOOSE x \in S : \A y \in S : y <= x

EventStore_sequence(fault) ==
    IF fault THEN Database
    ELSE IF eventstoreImpl = "MongoEventStore"
    THEN Ok(SetMax({doc.sequence[2] : doc \in mongo_events}))
    ELSE Ok(SetMax({row.sequence : row \in pg_events}))

(***************************************************************************)
(* mq.rs: the publish worker and the socket monitor.                       *)
(***************************************************************************)
\* A string as the bytes the socket sends: "sequence", and the topics
\* "a" and "b" message_post is called with.
SequenceTopic == <<115, 101, 113, 117, 101, 110, 99, 101>>
Topics == {<<97>>, <<98>>}
Payloads == {<<7>>}

RECURSIVE BigEndian(_, _)
BigEndian(n, width) ==
    IF width = 0 THEN <<>>
    ELSE BigEndian(n \div 256, width - 1) \o <<n % 256>>

\* rmp_serde::to_vec(&i64): MessagePack's shortest integer form (values
\* are within 32 bits here; n \div 256 and n % 256 round down, which
\* gives the two's complement bytes of a negative n).
rmp_to_vec(id) ==
    IF id >= 0
    THEN IF id < 128 THEN <<id>>
         ELSE IF id < 256 THEN <<204>> \o BigEndian(id, 1)
         ELSE IF id < 65536 THEN <<205>> \o BigEndian(id, 2)
         ELSE <<206>> \o BigEndian(id, 4)
    ELSE IF id >= -32 THEN <<256 + id>>
         ELSE IF id >= -128 THEN <<208>> \o BigEndian(id, 1)
         ELSE IF id >= -32768 THEN <<209>> \o BigEndian(id, 2)
         ELSE <<210>> \o BigEndian(id, 4)

\* enum PublishMessage { Sequence(i64), Forward(Message {topic, data}) }.
Sequence(id) == [kind |-> "Sequence", id |-> id, topic |-> <<>>, data |-> <<>>]
Forward(topic, data) ==
    [kind |-> "Forward", id |-> 0, topic |-> topic, data |-> data]

\* Mutant: the payload of a Sequence message encodes the id before it.
PublishParts_stale(message) ==
    IF message.kind = "Sequence"
    THEN <<[body |-> SequenceTopic, more |-> TRUE],
           [body |-> rmp_to_vec(message.id - 1), more |-> FALSE]>>
    ELSE <<[body |-> message.topic, more |-> TRUE],
           [body |-> message.data, more |-> FALSE]>>

\* The two parts the worker sends for a message taken off the channel.
PublishParts(message) ==
    IF message.kind = "Sequence"
    THEN <<[body |-> SequenceTopic, more |-> TRUE],
           [body |-> rmp_to_vec(message.id), more |-> FALSE]>>
    ELSE <<[body |-> message.topic, more |-> TRUE],
           [body |-> message.data, more |-> FALSE]>>

\* Mutant: the topic part is written while the message before it is still
\* being written, as a second writer of the socket would.
publish_interleaved(sent, message, outcome) ==
    IF outcome = "ok" /\ sent # <<>>
    THEN SubSeq(sent, 1, Len(sent) - 1)
            \o <<PublishParts(message)[1], sent[Len(sent)],
                 PublishParts(message)[2]>>
    ELSE IF outcome = "ok" THEN PublishParts(message)
    ELSE IF outcome = "send2" THEN Append(sent, PublishParts(message)[1])
    ELSE sent

\* Mutant: the payload is sent whether or not the topic part was taken
\* (two statements in place of .and_then).
publish_unchained(sent, message, outcome) ==
    CASE outcome = "ok" -> sent \o PublishParts(message)
      [] outcome = "send2" -> Append(sent, PublishParts(message)[1])
      [] outcome = "send1" -> Append(sent, PublishParts(message)[2])
      [] OTHER -> sent

\* One turn of the worker's loop (mq.rs:54-86) on `message`; outcome says
\* how far it got: "encode" (rmp fails), "send1" (the topic part is
\* refused), "send2" (the payload part is refused), "ok".
publish(sent, message, outcome) ==
    CASE outcome = "ok" -> sent \o PublishParts(message)
      [] outcome = "send2" -> Append(sent, PublishParts(message)[1])
      [] OTHER -> sent

PublishOutcomes(message) ==
    IF message.kind = "Sequence" THEN {"encode", "send1", "send2", "ok"}
    ELSE {"send1", "send2", "ok"}

\* poll_monitor (mq.rs:92-105): what it does with one monitor event.
poll_monitor(log, event) ==
    Append(log, CASE event = "ACCEPTED" -> "Publish connection accepted"
                  [] event = "CLOSED" -> "Publish connection closed"
                  [] OTHER -> "Unexpected event")

\* The multipart messages a subscriber sees in a run of parts: a message
\* ends at the first part sent without SNDMORE.
RECURSIVE FramesFrom(_, _)
FramesFrom(parts, open) ==
    IF parts = <<>> THEN <<>>
    ELSE IF Head(parts).more
         THEN FramesFrom(Tail(parts), Append(open, Head(parts).body))
         ELSE <<Append(open, Head(parts).body)>> \o FramesFrom(Tail(parts), <<>>)

Frames == FramesFrom(transport, <<>>)

SequenceFrame(id) == <<SequenceTopic, rmp_to_vec(id)>>

\* The sequence the last whole "sequence" frame on the transport carried
\* (a set: empty when no such frame was sent).
LatestPublished ==
    LET idx == {i \in 1..Len(Frames) :
                   \E e \in 1..Len(appendLog) :
                       Frames[i] = SequenceFrame(appendLog[e].seq)}
    IN  IF idx = {} THEN {}
        ELSE {appendLog[e].seq : e \in {x \in 1..Len(appendLog) :
                 Frames[SetMax(idx)] = SequenceFrame(appendLog[x].seq)}}

(***************************************************************************)
(* Handlers of the event log (main.rs) and the steps of the threads.       *)
(***************************************************************************)
NoEventReq == [seq |-> 0, event |-> [version |-> 0, data |-> [k |-> ""]],
               before |-> 0]

NoEventLast == [op |-> "none", seq |-> 0, n |-> 0, fault |-> FALSE,
                res |-> NoRecord, status |-> 0]

SeededCounters == {[_id |-> "events", sequence |-> <<"I64", 1>>]}

EventInit ==
    /\ pg_events = {}
    /\ pg_events_seq = 1
    /\ mongo_events = {}
    /\ mongo_counters \in {SeededCounters, {}}
    /\ eventstoreImpl = "PostgresEventStore" => mongo_counters = SeededCounters
    /\ clock = 0
    /\ epc = [w \in Writers |-> "idle"]
    /\ ereq = [w \in Writers |-> NoEventReq]
    /\ elast = NoEventLast
    /\ appendLog = <<>>
    /\ started = 0

BrokerInit ==
    /\ queue = <<>>
    /\ transport = <<>>
    /\ forwards = 0
    /\ monitorFeed = <<>>
    /\ monitorLog = <<>>
    /\ connects = 0
    /\ acceptedAt = <<>>
    /\ worker = "running"
    /\ enqueued = <<>>


\* An entry of appendLog: what store() was called with, the sequence it
\* returned, the time it stamped, and how many entries there were when the
\* call began.
Logged(event, sequence, before) ==
    [seq |-> sequence, version |-> event.version, data |-> event.data,
     timestamp |-> clock, before |-> before]

AppendSeqs == {appendLog[i].seq : i \in 1..Len(appendLog)}

\* The reply of a handler; n is the number of appends that had returned
\* when the store answered.
EventReply(op, seq, fault, res, status) ==
    elast' = [op |-> op, seq |-> seq, n |-> Len(appendLog), fault |-> fault,
              res |-> res, status |-> status]

\* event_put on the relational store: store.store(event), one statement.
PgEventPut(w, event, fault) ==
    /\ eventstoreImpl = "PostgresEventStore"
    /\ epc[w] = "idle"
    /\ started < MaxEvents
    /\ started' = started + 1
    /\ LET r == PostgresEventStore_store(pg_events, pg_events_seq, clock,
                                         event, fault)
       IN  /\ pg_events' = r.table
           /\ pg_events_seq' = r.serial
           /\ IF r.res.tag = "Ok"
              THEN /\ epc' = [epc EXCEPT ![w] = "send"]
                   /\ ereq' = [ereq EXCEPT ![w] =
                          [seq |-> r.res.val, event |-> event,
                           before |-> Len(appendLog)]]
                   /\ appendLog' = Append(appendLog,
                          Logged(event, r.res.val, Len(appendLog)))
                   /\ clock' = clock + 1
                   /\ UNCHANGED elast
              ELSE /\ EventReply("append", 0, TRUE, r.res, 500)
                   /\ UNCHANGED <<epc, ereq, appendLog, clock>>
    /\ UNCHANGED <<eventstoreImpl, mongo_counters, mongo_events, bvars>>
    /\ UNCHANGED dvars

\* event_put on the document store, first call: the counter.
MongoEventPutCounter(w, event, fault) ==
    /\ eventstoreImpl = "MongoEventStore"
    /\ epc[w] = "idle"
    /\ started < MaxEvents
    /\ started' = started + 1
    /\ LET r == MongoEventStore_store_counter(mongo_counters, fault)
       IN  /\ mongo_counters' = r.counters
           /\ IF r.next = "insert"
              THEN /\ epc' = [epc EXCEPT ![w] = "insert"]
                   /\ ereq' = [ereq EXCEPT ![w] =
                          [seq |-> r.res.val, event |-> event,
                           before |-> Len(appendLog)]]
                   /\ UNCHANGED elast
              ELSE IF r.next = "panic"
              THEN /\ epc' = [epc EXCEPT ![w] = "panicked"]
                   /\ UNCHANGED <<ereq, elast>>
              ELSE /\ EventReply("append", 0, TRUE, r.res, 500)
                   /\ UNCHANGED <<epc, ereq>>
    /\ UNCHANGED <<eventstoreImpl, pg_events, pg_events_seq, mongo_events,
                   clock, appendLog, bvars>>
    /\ UNCHANGED dvars

\* event_put on the document store, second call: the event document.
MongoEventPutInsert(w, fault) ==
    /\ epc[w] = "insert"
    /\ LET r == MongoEventStore_store_insert(mongo_events, ereq[w].seq,
                                             clock, ereq[w].event, fault)
       IN  /\ mongo_events' = r.table
           /\ IF r.res.tag = "Ok"
              THEN /\ epc' = [epc EXCEPT ![w] = "send"]
                   /\ ereq' = [ereq EXCEPT ![w].seq = r.res.val]
                   /\ appendLog' = Append(appendLog,
                          Logged(ereq[w].event, r.res.val, ereq[w].before))
                   /\ clock' = clock + 1
                   /\ UNCHANGED elast
              ELSE /\ EventReply("append", 0, TRUE, r.res, 500)
                   /\ epc' = [epc EXCEPT ![w] = "idle"]
                   /\ ereq' = [ereq EXCEPT ![w] = NoEventReq]
                   /\ UNCHANGED <<appendLog, clock>>
    /\ UNCHANGED <<eventstoreImpl, pg_events, pg_events_seq, mongo_counters,
                   started, bvars>>
    /\ UNCHANGED dvars

\* tx.lock() then tx.send(message): the message goes to the back of the
\* channel; Err(SendError) when the receiving end has been dropped.
Tx_send(message) ==
    IF worker = "running"
    THEN /\ queue' = Append(queue, message)
         /\ enqueued' = Append(enqueued, message)
    ELSE UNCHANGED <<queue, enqueued>>

\* event_put after Ok(i): tx.lock(), tx.send(Sequence(i)), 201 with i;
\* 500 "Created but couldn't notify" when the send fails.
EventPutSend(w) ==
    /\ epc[w] = "send"
    /\ Tx_send(Sequence(ereq[w].seq))
    /\ IF worker = "running"
       THEN EventReply("append", ereq[w].seq, FALSE, Ok(ereq[w].seq), 201)
       ELSE EventReply("append", ereq[w].seq, FALSE, NotNotified, 500)
    /\ epc' = [epc EXCEPT ![w] = "idle"]
    /\ ereq' = [ereq EXCEPT ![w] = NoEventReq]
    /\ UNCHANGED <<eventstoreImpl, pg_events, pg_events_seq, mongo_counters,
                   mongo_events, clock, appendLog, started, transport,
                   forwards, monitorFeed, monitorLog, connects, acceptedAt,
                   worker>>
    /\ UNCHANGED dvars

\* event_get: 200 with the event, 404 for NoRecord, 500 for Database.
EventGet(id, fault) ==
    /\ LET res == EventRetrieve(id, fault)
       IN  EventReply("retrieve", id, fault, res,
                      CASE res.tag = "Ok" -> 200
                        [] res.tag = "NoRecord" -> 404
                        [] OTHER -> 500)
    /\ UNCHANGED <<eventstoreImpl, pg_events, pg_events_seq, mongo_counters,
                   mongo_events, clock, epc, ereq, appendLog, started, bvars>>
    /\ UNCHANGED dvars

\* sequence_get: 200 with store.sequence(), 500 on error.
SequenceGet(fault) ==
    /\ LET res == EventStore_sequence(fault)
       IN  EventReply("sequence", IF res.tag = "Ok" THEN res.val ELSE 0,
                      fault, res, IF res.tag = "Ok" THEN 200 ELSE 500)
    /\ UNCHANGED <<eventstoreImpl, pg_events, pg_events_seq, mongo_counters,
                   mongo_events, clock, epc, ereq, appendLog, started, bvars>>
    /\ UNCHANGED dvars

\* message_post: tx.lock(), tx.send(Forward(Message {topic, data})), 201
\* (500 when the send fails; the reply of message_post is not recorded).
MessagePost(topic, data) ==
    /\ forwards < MaxForwards
    /\ forwards' = forwards + 1
    /\ Tx_send(Forward(topic, data))
    /\ UNCHANGED <<evars, transport, monitorFeed, monitorLog, connects,
                   acceptedAt, worker>>
    /\ UNCHANGED dvars

\* Mutant: the worker takes the message sent last.
Publish_lifo(outcome) ==
    /\ worker = "running"
    /\ queue # <<>>
    /\ outcome \in PublishOutcomes(queue[Len(queue)])
    /\ transport' = publish(transport, queue[Len(queue)], outcome)
    /\ queue' = SubSeq(queue, 1, Len(queue) - 1)
    /\ UNCHANGED <<evars, forwards, monitorFeed, monitorLog, connects,
                   acceptedAt, worker, enqueued>>
    /\ UNCHANGED dvars

\* The worker thread takes the next message off the channel.
Publish(outcome) ==
    /\ worker = "running"
    /\ queue # <<>>
    /\ outcome \in PublishOutcomes(Head(queue))
    /\ transport' = publish(transport, Head(queue), outcome)
    /\ queue' = Tail(queue)
    /\ UNCHANGED <<evars, forwards, monitorFeed, monitorLog, connects,
                   acceptedAt, worker, enqueued>>
    /\ UNCHANGED dvars

\* The worker thread ends by a panic below the loop body (none of the
\* loop's own error paths leaves the loop): rx is dropped with whatever
\* the channel still holds.
WorkerExits ==
    /\ worker = "running"
    /\ worker' = "exited"
    /\ queue' = <<>>
    /\ UNCHANGED <<evars, transport, forwards, monitorFeed, monitorLog,
                   connects, acceptedAt, enqueued>>
    /\ UNCHANGED dvars

AllQuiet ==
    /\ queue = <<>>
    /\ monitorFeed = <<>>
    /\ \A w \in Writers : epc[w] \in {"idle", "panicked"}

\* A subscriber connects: the PUB socket accepts it and the socket monitor
\* gets an ACCEPTED event.
SubscriberConnects ==
    /\ connects < MaxConnects
    /\ connects' = connects + 1
    /\ monitorFeed' = Append(monitorFeed, "ACCEPTED")
    /\ acceptedAt' = Append(acceptedAt,
            [frames |-> Len(Frames), latest |-> LatestPublished,
             quiet |-> AllQuiet, started |-> started,
             taken |-> Len(enqueued) - Len(queue)])
    /\ UNCHANGED <<evars, queue, transport, forwards, monitorLog, worker,
                   enqueued>>
    /\ UNCHANGED dvars

\* A subscriber goes away: the monitor gets a CLOSED event.
SubscriberCloses ==
    /\ Len(monitorLog) + Len(monitorFeed) < 2 * connects
    /\ monitorFeed' = Append(monitorFeed, "CLOSED")
    /\ UNCHANGED <<evars, queue, transport, forwards, monitorLog, connects,
                   acceptedAt, worker, enqueued>>
    /\ UNCHANGED dvars

\* The monitor thread takes the next event off its socket.
PollMonitor ==
    /\ monitorFeed # <<>>
    /\ monitorLog' = poll_monitor(monitorLog, Head(monitorFeed))
    /\ monitorFeed' = Tail(monitorFeed)
    /\ UNCHANGED <<evars, queue, transport, forwards, connects, acceptedAt,
                   worker, enqueued>>
    /\ UNCHANGED dvars

EventIds == 0..(MaxEvents + 1)

\* PUT /v1/event, on either store.
AppendNext ==
    \/ \E w \in Writers, e \in NewEvents,
          f \in {"none", "pool", "statement", "unique"} : PgEventPut(w, e, f)
    \/ \E w \in Writers, e \in NewEvents, f \in BOOLEAN :
            MongoEventPutCounter(w, e, f)
    \/ \E w \in Writers, f \in {"none", "bson", "insert"} :
            MongoEventPutInsert(w, f)
    \/ \E w \in Writers : EventPutSend(w)

ReadNext ==
    \/ \E id \in EventIds, f \in BOOLEAN : EventGet(id, f)
    \/ \E f \in BOOLEAN : SequenceGet(f)

BrokerNext ==
    \/ \E t \in Topics, d \in Payloads : MessagePost(t, d)
    \/ \E o \in {"encode", "send1", "send2", "ok"} : Publish(o)
    \/ SubscriberConnects
    \/ SubscriberCloses
    \/ PollMonitor

\* init_stores: the scheme of DATABASE_URL selects both stores together.
\* DataStore is the store of datastore.rs, on one PgConnection.
Stores == {<<"PostgresEventStore", "PostgresDataStore">>,
           <<"MongoEventStore", "MongoDataStore">>}

Init ==
    /\ \E p \in Stores : eventstoreImpl = p[1] /\ datastoreImpl = p[2]
    /\ DataInit /\ EventInit /\ BrokerInit

\* Appends and the notification side: the publish worker, message_post,
\* subscribers and the monitor thread.
Next == AppendNext \/ BrokerNext

Spec == Init /\ [][Next]_vars

\* Appends, message_post and the publish worker, ending when it may.
WorkerNext ==
    \/ \E t \in Topics, d \in Payloads : MessagePost(t, d)
    \/ \E o \in {"encode", "send1", "send2", "ok"} : Publish(o)
    \/ WorkerExits

\* PUT /v1/event of one body, with every database call answering (the
\* worker never sees the body; store faults end before the channel).
NotifiedEvent == CHOOSE e \in NewEvents : e.version = 1

AppendOkNext ==
    \/ \E w \in Writers : PgEventPut(w, NotifiedEvent, "none")
    \/ \E w \in Writers : MongoEventPutCounter(w, NotifiedEvent, FALSE)
    \/ \E w \in Writers : MongoEventPutInsert(w, "none")
    \/ \E w \in Writers : EventPutSend(w)

NextWorker == AppendOkNext \/ WorkerNext

SpecWorker == Init /\ [][NextWorker]_vars

\* Appends that may fail at any database call, and the publish worker.
NextNotify == AppendNext \/ (\E o \in {"encode", "send1", "send2", "ok"} : Publish(o))

SpecNotify == Init /\ [][NextNotify]_vars

\* The event log: appends and reads, the channel filling up behind them.
NextLog == AppendNext \/ ReadNext

SpecLog == Init /\ [][NextLog]_vars

\* The content store alone, every implementation of it.
InitData ==
    /\ \E p \in Stores \cup {<<"PostgresEventStore", "DataStore">>} :
            eventstoreImpl = p[1] /\ datastoreImpl = p[2]
    /\ DataInit /\ EventInit /\ BrokerInit
    /\ mongo_counters = SeededCounters

NextData == DataNext

SpecData == InitData /\ [][NextData]_vars

(***************************************************************************)
(* Event log claims (SpecLog).                                             *)
(***************************************************************************)
LogIdx == 1..Len(appendLog)

\* The sequences of the first n entries of appendLog.
SeqsUpTo(n) == {appendLog[i].seq : i \in 1..n}

\* C6: when the successful appends ran one after another (each began after
\* the one before it had returned), the sequences they returned are
\* strictly increasing in that order, hence pairwise distinct.
C6_SequentialAppends ==
    (\A j \in LogIdx : appendLog[j].before = j - 1) =>
        /\ \A j \in LogIdx : j > 1 => appendLog[j].seq > appendLog[j - 1].seq
        /\ Cardinality(AppendSeqs) = Len(appendLog)

C6_Witness ==
    /\ Len(appendLog) = MaxEvents
    /\ \A j \in LogIdx : appendLog[j].before = j - 1
    /\ eventstoreImpl = "MongoEventStore"
    /\ \A w \in Writers : epc[w] = "idle"

\* The events in the store in use, as (sequence, version, data) read
\* straight off the table or collection.
StoredEvents ==
    IF eventstoreImpl = "MongoEventStore"
    THEN {<<doc.sequence[2], doc.version[2], doc.data[2], doc.timestamp[2]>> :
              doc \in mongo_events}
    ELSE {<<row.sequence, row.version, row.data, row.timestamp>> :
              row \in pg_events}

\* C7: under every interleaving of the handlers no two stored events have
\* the same sequence, no two appends return the same sequence, and an
\* append that began after another had returned gets a greater sequence.
C7_ConcurrentAppends ==
    /\ \A e1, e2 \in StoredEvents : e1[1] = e2[1] => e1 = e2
    /\ \A i, j \in LogIdx : i # j => appendLog[i].seq # appendLog[j].seq
    /\ \A i, j \in LogIdx :
          appendLog[j].before >= i => appendLog[j].seq > appendLog[i].seq
    /\ Cardinality(StoredEvents) = Len(appendLog)

\* Two appends overlapped and returned in the opposite order of their
\* sequences.
C7_Witness ==
    /\ Len(appendLog) = 2
    /\ appendLog[1].seq > appendLog[2].seq
    /\ appendLog[2].before = 0

\* C8: the store's current sequence is the greatest sequence an append has
\* returned, in every state with at least one successful append, and
\* sequence_get replies with it.
C8_CurrentSequence ==
    /\ appendLog # <<>> =>
          EventStore_sequence(FALSE) = Ok(SetMax(AppendSeqs))
    /\ (elast.op = "sequence" /\ ~elast.fault /\ elast.n > 0) =>
          /\ elast.res = Ok(SetMax(SeqsUpTo(elast.n)))
          /\ elast.status = 200

C8_Witness ==
    /\ elast.op = "sequence" /\ elast.n = 2 /\ Len(appendLog) = 2
    /\ elast.res = Ok(SetMax(AppendSeqs))
    /\ appendLog[1].seq > appendLog[2].seq

\* C9: once append(version, data) has returned s, retrieve(s) gives the
\* event with sequence s, that version, that data and the timestamp it
\* was stored with, in every later state; event_get replies with it.
C9_EventRoundTrip ==
    /\ \A i \in LogIdx :
          LET r == EventRetrieve(appendLog[i].seq, FALSE)
          IN  /\ r.tag = "Ok"
              /\ r.val.sequence = appendLog[i].seq
              /\ r.val.version = appendLog[i].version
              /\ r.val.data = appendLog[i].data
              /\ r.val.timestamp = appendLog[i].timestamp
    /\ (elast.op = "retrieve" /\ ~elast.fault
            /\ elast.seq \in SeqsUpTo(elast.n)) =>
          /\ elast.res.tag = "Ok"
          /\ elast.status = 200
          /\ \E i \in 1..elast.n :
                /\ appendLog[i].seq = elast.res.val.sequence
                /\ appendLog[i].seq = elast.seq
                /\ appendLog[i].version = elast.res.val.version
                /\ appendLog[i].data = elast.res.val.data

\* The first event is read back after a second, different one was appended.
C9_Witness ==
    /\ Len(appendLog) = 2
    /\ appendLog[1].version # appendLog[2].version
    /\ elast.op = "retrieve" /\ elast.n = 2
    /\ elast.seq = appendLog[1].seq
    /\ elast.res.tag = "Ok"
    /\ elast.res.val.version = appendLog[1].version

\* C10: retrieve(s) of a sequence no append has returned fails with
\* NoRecord (404 "No such event"), and with the different Database error
\* (500) only when the backend call itself failed.
C10_EventMiss ==
    (elast.op = "retrieve" /\ elast.seq \notin SeqsUpTo(elast.n)) =>
        /\ elast.res = IF elast.fault THEN Database ELSE NoRecord
        /\ elast.status = IF elast.fault THEN 500 ELSE 404
        /\ NoRecord # Database

C10_Witness ==
    /\ elast.op = "retrieve" /\ elast.n >= 1
    /\ elast.seq \notin SeqsUpTo(elast.n)
    /\ elast.res = NoRecord /\ elast.status = 404

\* C11: an append refused with a unique violation on the sequence returns
\* an OutOfSequence error, which is not the Database error, and is not
\* retried: the one statement is the only one sent and nothing is stored.
C11_OutOfSequence ==
    [][ \A w \in Writers, e \in NewEvents :
            PgEventPut(w, e, "unique") =>
                /\ elast'.res.tag = "OutOfSequence"
                /\ elast'.res # Database
                /\ pg_events' = pg_events
                /\ pg_events_seq' = pg_events_seq + 1
      ]_vars

(***************************************************************************)
(* Notification claims (Spec, SpecWorker).                                 *)
(***************************************************************************)
\* The frame of an input: its topic part, sent with SNDMORE, and its
\* payload part.
TopicPart(message) ==
    [body |-> IF message.kind = "Sequence" THEN SequenceTopic
              ELSE message.topic,
     more |-> TRUE]

PayloadPart(message) ==
    [body |-> IF message.kind = "Sequence" THEN rmp_to_vec(message.id)
              ELSE message.data,
     more |-> FALSE]

\* The inputs the worker has taken off the channel.
Taken == Len(enqueued) - Len(queue)

\* The ids of the Sequence messages sent into the channel so far.
EnqueuedIds ==
    {enqueued[i].id : i \in {k \in 1..Len(enqueued) :
                                enqueued[k].kind = "Sequence"}}

\* The integers a payload is decoded against.
DecodeRange == 0..300

\* C12: the handler of an append that returned n sends Sequence(n) into
\* the channel, once, and replies n; the worker's write for that message,
\* when it succeeds, puts the part "sequence" and then a payload on the
\* transport that is the encoding of n and of no other integer.  No
\* Sequence message carries a value no append returned, and no two carry
\* the same value, whatever the interleaving of the handlers.
C12_NotificationValue ==
    [][ /\ \A w \in Writers :
              (epc[w] # "send" /\ epc'[w] = "send") =>
                  /\ Len(appendLog') = Len(appendLog) + 1
                  /\ ereq'[w].seq = appendLog'[Len(appendLog')].seq
        /\ \A w \in Writers :
              (epc[w] = "send" /\ worker = "running") =>
                  \/ epc'[w] = "send" /\ ereq'[w].seq = ereq[w].seq
                  \/ /\ epc'[w] = "idle"
                     /\ enqueued' = Append(enqueued, Sequence(ereq[w].seq))
                     /\ queue' = Append(queue, Sequence(ereq[w].seq))
                     /\ elast'.res = Ok(ereq[w].seq)
        /\ (Publish("ok") /\ Head(queue).kind = "Sequence") =>
              LET n == Head(queue).id
              IN  /\ n \in AppendSeqs
                  /\ transport' = transport \o
                        <<[body |-> SequenceTopic, more |-> TRUE],
                          [body |-> rmp_to_vec(n), more |-> FALSE]>>
                  /\ \A m \in DecodeRange : rmp_to_vec(m) = rmp_to_vec(n) => m = n
        /\ EnqueuedIds' \subseteq AppendSeqs'
        /\ Cardinality(EnqueuedIds') =
              Cardinality({k \in 1..Len(enqueued') : enqueued'[k].kind = "Sequence"})
      ]_vars

\* Two appends overlapped and returned their sequences in the opposite
\* order; both notifications were written, each with its own value.
C12_Witness ==
    /\ Len(appendLog) = 2 /\ appendLog[1].seq > appendLog[2].seq
    /\ queue = <<>> /\ worker = "running"
    /\ EnqueuedIds = AppendSeqs
    /\ transport =
          <<[body |-> SequenceTopic, more |-> TRUE],
            [body |-> rmp_to_vec(appendLog[1].seq), more |-> FALSE],
            [body |-> SequenceTopic, more |-> TRUE],
            [body |-> rmp_to_vec(appendLog[2].seq), more |-> FALSE]>>

\* C1: a subscriber accepted while the latest published sequence is N, with
\* nothing pending and no append since, is sent a "sequence" frame carrying
\* N: once the monitor has handled the connection and every thread is idle
\* again, that frame is on the transport after the point of the accept.
C1_SlowJoinerRepublish ==
    \A c \in DOMAIN acceptedAt :
        LET a == acceptedAt[c]
        IN  (a.latest # {} /\ a.quiet /\ a.started = started /\ AllQuiet) =>
                \E k \in (a.frames + 1)..Len(Frames), n \in a.latest :
                    Frames[k] = SequenceFrame(n)

\* C13: whatever the producers and their interleaving, a payload part on
\* the transport comes directly after the topic part of the same input,
\* and a topic part is followed by nothing but its own payload or, when
\* the payload was refused, the topic part that starts a later input; the
\* transport holds parts of inputs the worker has taken only.
C13_FrameAtomicity ==
    /\ \A i \in 1..Len(transport) :
          IF transport[i].more
          THEN /\ \E k \in 1..Taken : transport[i] = TopicPart(enqueued[k])
               /\ i < Len(transport) =>
                     \/ transport[i + 1].more
                     \/ \E k \in 1..Taken :
                           /\ transport[i] = TopicPart(enqueued[k])
                           /\ transport[i + 1] = PayloadPart(enqueued[k])
          ELSE /\ i > 1
               /\ \E k \in 1..Taken :
                     /\ transport[i - 1] = TopicPart(enqueued[k])
                     /\ transport[i] = PayloadPart(enqueued[k])
    /\ Len(transport) <= 2 * Taken

\* A forwarded message and a sequence notification of different producers
\* waited in the channel together and were both written whole.
C13_Witness ==
    /\ Len(enqueued) = 3 /\ Len(queue) = 1
    /\ enqueued[1].kind = "Forward" /\ enqueued[2].kind = "Sequence"
    /\ transport = <<TopicPart(enqueued[1]), PayloadPart(enqueued[1]),
                     TopicPart(enqueued[2]), PayloadPart(enqueued[2])>>

\* parts is what the worker's turns on inputs, one turn each and in that
\* order, can have written: for every input both parts, the topic part
\* alone, or nothing.
RECURSIVE EmittedInOrder(_, _)
EmittedInOrder(parts, inputs) ==
    IF inputs = <<>> THEN parts = <<>>
    ELSE \/ EmittedInOrder(parts, Tail(inputs))
         \/ /\ Len(parts) >= 1
            /\ parts[1] = TopicPart(Head(inputs))
            /\ EmittedInOrder(Tail(parts), Tail(inputs))
         \/ /\ Len(parts) >= 2
            /\ parts[1] = TopicPart(Head(inputs))
            /\ parts[2] = PayloadPart(Head(inputs))
            /\ EmittedInOrder(Tail(Tail(parts)), Tail(inputs))

\* C14: the channel holds, in the order they were sent, exactly the inputs
\* the worker has not taken yet, and the transport holds what one turn on
\* each taken input, in the order they were sent, has written: no input is
\* taken twice, skipped or overtaken.
C14_FifoDelivery ==
    /\ Taken \in 0..Len(enqueued)
    /\ worker = "running" =>
          queue = SubSeq(enqueued, Taken + 1, Len(enqueued))
    /\ EmittedInOrder(transport, SubSeq(enqueued, 1, Taken))

\* Three inputs of three producers, all taken and written whole, in the
\* order they were sent; the sequence notifications were sent in the
\* opposite order of their values.
C14_Witness ==
    /\ Len(enqueued) = 3 /\ queue = <<>> /\ worker = "running"
    /\ enqueued[1].kind = "Sequence" /\ enqueued[3].kind = "Sequence"
    /\ enqueued[1].id > enqueued[3].id
    /\ transport = <<TopicPart(enqueued[1]), PayloadPart(enqueued[1]),
                     TopicPart(enqueued[2]), PayloadPart(enqueued[2]),
                     TopicPart(enqueued[3]), PayloadPart(enqueued[3])>>

C16_NotificationAbsorbed ==
    /\ (elast.op = "append" /\ ~elast.fault /\ elast.seq \in AppendSeqs) =>
          /\ elast.status = 201
          /\ elast.res = Ok(elast.seq)
    /\ \A i \in LogIdx :
          LET r == EventRetrieve(appendLog[i].seq, FALSE)
          IN  r.tag = "Ok" /\ r.val.sequence = appendLog[i].seq

\* C17: every message on the transport (the parts up to and including
\* the first one sent without SNDMORE) has exactly two parts, the topic of
\* an input the worker has taken and that input's own payload, also after
\* turns whose first or second send failed; a Forward input appears as its
\* topic and data unchanged.
C17_TwoPartFrames ==
    \A i \in 1..Len(Frames) :
        /\ Len(Frames[i]) = 2
        /\ \E k \in 1..Taken :
              Frames[i] = <<TopicPart(enqueued[k]).body,
                            PayloadPart(enqueued[k]).body>>

(***************************************************************************)
(* Content store claims on failures and races (SpecData).                  *)
(***************************************************************************)
\* C18: when the existence lookup of store(d) fails with a backend error,
\* the call ends there: the caller gets the Database error (500), the
\* handler does not go on to the insert, and no record is written.
C18_LookupFailureStops ==
    [][ \A c \in DataClients, d \in Datas :
            DataPutLookup(c, d, TRUE) =>
                /\ dpc'[c] = "idle"
                /\ DataCompletes("store")
                /\ dlast'.arg = d
                /\ dlast'.res = Database
                /\ dlast'.status = 500
                /\ Records' = Records
      ]_vars

(***************************************************************************)
(* Notification claims on the accepted connection (Spec).                  *)
(***************************************************************************)
\* The id of the last Sequence input among the first t sent into the
\* channel (a set: empty when there is none).
LastProcessed(t) ==
    LET idx == {k \in 1..t : enqueued[k].kind = "Sequence"}
    IN  IF idx = {} THEN {} ELSE {enqueued[SetMax(idx)].id}

\* The messages with topic "sequence" completed after the first n.
SequenceFramesAfter(n) ==
    {k \in (n + 1)..Len(Frames) : Frames[k][1] = SequenceTopic}

\* C19: for a connection accepted after the worker has processed a
\* sequence notification, once the monitor has handled it and every thread
\* is idle, a frame beyond those of the inputs themselves has been emitted
\* after the accept, and it carries the sequence of the last notification
\* the worker had processed at some point from the accept on (the point it
\* took the connection's input), not that of one processed later.
C19_RepublishValue ==
    \A c \in DOMAIN acceptedAt :
        LET a == acceptedAt[c]
        IN  (AllQuiet /\ LastProcessed(a.taken) # {}) =>
                /\ Cardinality(SequenceFramesAfter(a.frames)) >
                      Cardinality({i \in (a.taken + 1)..Taken :
                                      enqueued[i].kind = "Sequence"})
                /\ \E k \in SequenceFramesAfter(a.frames), t \in a.taken..Taken :
                      \E n \in LastProcessed(t) : Frames[k] = SequenceFrame(n)

\* C20: a store(d) that found nothing under the hash of d and reaches its
\* insert while at most d itself has been stored under that hash meanwhile
\* (by a concurrent store(d)) returns the hash of d, the backend answering
\* every call, and exactly one record is then stored under the hash.
C20_ConcurrentStores ==
    [][ \A c \in DataClients :
            LET d == dreq[c].data
                hash == Blake2s_digest(d)
            IN  (/\ DataPutInsert(c, FALSE)
                 /\ ~dreq[c].fault
                 /\ dreq[c].pre = {}
                 /\ StoredUnder(hash) \subseteq {d}) =>
                    /\ dlast'.res = Ok(hash)
                    /\ dlast'.status = 200
                    /\ Cardinality({r \in Records' : r[1] = hex_encode(hash)}) = 1
      ]_vars

(***************************************************************************)
(* Notification claims on the order of values and on persistence           *)
(* (SpecWorker).                                                           *)
(***************************************************************************)
\* C21: of two "sequence" messages on the transport the later one never
\* carries a smaller sequence than the earlier one, however the appends of
\* the handlers interleave.
C21_MonotonicNotifications ==
    \A i, j \in 1..Len(Frames), n, m \in AppendSeqs :
        (i < j /\ Frames[i] = SequenceFrame(n) /\ Frames[j] = SequenceFrame(m))
            => n <= m

\* C22: every Sequence message sent into the channel, and so every
\* "sequence" frame the worker writes, carries the sequence of an append
\* that returned Ok and whose event is stored and retrievable from then
\* on; the sequence a failed append used up is never notified.
C22_PublishAfterPersist ==
    /\ \A k \in 1..Len(enqueued) :
          enqueued[k].kind = "Sequence" =>
              LET n == enqueued[k].id
                  r == EventRetrieve(n, FALSE)
              IN  /\ n \in AppendSeqs
                  /\ n \in {e[1] : e \in StoredEvents}
                  /\ r.tag = "Ok" /\ r.val.sequence = n
    /\ \A i \in 2..Len(transport) :
          (~transport[i].more /\ transport[i - 1] = TopicPart(Sequence(0))) =>
              \E k \in 1..Taken :
                  /\ transport[i] = PayloadPart(enqueued[k])
                  /\ EventRetrieve(enqueued[k].id, FALSE).tag = "Ok"
    /\ {e[1] : e \in StoredEvents} = AppendSeqs

\* On the document store an append used up sequence 1 and failed at its
\* insert; the next append stored sequence 2 and its frame was written.
C22_Witness ==
    /\ eventstoreImpl = "MongoEventStore"
    /\ Len(appendLog) = 1 /\ appendLog[1].seq = 2
    /\ EventRetrieve(1, FALSE) = NoRecord
    /\ transport = <<TopicPart(Sequence(2)), PayloadPart(Sequence(2))>>

(***************************************************************************)
(* Event log claims on failures (SpecLog).                                 *)
(***************************************************************************)
\* C23: an append of which a backend step fails (the counter document is
\* missing, the counter call fails, the insert fails after the counter was
\* incremented, the relational statement fails) ends with the Database
\* error (500) and never with a crashed handler, and stores no event: the
\* stored events are those of the appends that returned Ok.
C23_AppendFailureIsError ==
    /\ \A w \in Writers : epc[w] # "panicked"
    /\ (elast.op = "append" /\ elast.fault) =>
          elast.res = Database /\ elast.status = 500
    /\ {e[1] : e \in StoredEvents} = AppendSeqs

(***************************************************************************)
(* Content store claims on the records (SpecData).                         *)
(***************************************************************************)
\* C24: no step of any handler removes or changes a record (every record
\* of the state before is a record of the state after), and after every
\* step there is at most one record per hash; so a hash that maps to bytes
\* d maps to d from then on.
C24_BlobImmutability ==
    [][ /\ Records \subseteq Records'
        /\ \A r1, r2 \in Records' : r1[1] = r2[1] => r1 = r2
        /\ \A h \in Hashes : StoredUnder(h) # {} => StoredUnder(h)' = StoredUnder(h)
      ]_vars

\* Two records are stored, a store of other bytes with the hash of one of
\* them has just been refused, and another store is between its existence
\* check and its insert.
C24_Witness ==
    /\ Cardinality(Records) = 2
    /\ dlast.op = "store" /\ dlast.res.tag = "Collision"
    /\ dlast.arg \notin {r[2] : r \in Records}
    /\ \E c \in DataClients : dpc[c] = "insert"

(***************************************************************************)
(* The two backends of the content store side by side: the same calls,     *)
(* one after another, on the relational table and on the document          *)
(* collection, both empty at the start, every backend call answering.      *)
(***************************************************************************)
\* PostgresDataStore::store as one call.
PostgresDataStore_store(table, data) ==
    LET lookup == PostgresDataStore_store_lookup(table, data, FALSE)
    IN  IF lookup.next = "return" THEN [table |-> table, res |-> lookup.res]
        ELSE PostgresDataStore_store_insert(table, data, FALSE)

\* MongoDataStore::store as one call.
MongoDataStore_store(coll, data) ==
    LET lookup == MongoDataStore_store_lookup(coll, data, FALSE)
    IN  IF lookup.next = "return" THEN [table |-> coll, res |-> lookup.res]
        ELSE MongoDataStore_store_insert(coll, data, FALSE)

\* store(data) on both; dlast keeps the call and the relational result.
BothStore(data) ==
    /\ pg_datastore' = PostgresDataStore_store(pg_datastore, data).table
    /\ mongo_data' = MongoDataStore_store(mongo_data, data).table
    /\ dlast' = [tick |-> 1 - dlast.tick, op |-> "store", arg |-> data,
                 pre |-> {}, fault |-> FALSE,
                 res |-> PostgresDataStore_store(pg_datastore, data).res,
                 status |-> 0]
    /\ UNCHANGED <<datastoreImpl, dpc, dreq, okStores>>
    /\ UNCHANGED <<evars, bvars>>

\* retrieve(id) on both.
BothRetrieve(id) ==
    /\ dlast' = [tick |-> 1 - dlast.tick, op |-> "retrieve", arg |-> id,
                 pre |-> {}, fault |-> FALSE,
                 res |-> PostgresDataStore_retrieve(pg_datastore, id, FALSE),
                 status |-> 0]
    /\ UNCHANGED <<datastoreImpl, pg_datastore, mongo_data, dpc, dreq,
                   okStores>>
    /\ UNCHANGED <<evars, bvars>>

InitBoth ==
    /\ eventstoreImpl = "PostgresEventStore"
    /\ datastoreImpl = "PostgresDataStore"
    /\ DataInit /\ EventInit /\ BrokerInit

NextBoth ==
    \/ \E d \in Datas : BothStore(d)
    \/ \E h \in Hashes : BothRetrieve(h)

SpecBoth == InitBoth /\ [][NextBoth]_vars

\* C25: after the same calls on both backends, whatever call comes next
\* gets the same result from both: store(d) the same hash or the same
\* Collision, retrieve(h) the same bytes or NoRecord.
C25_BackendEquivalence ==
    /\ \A d \in Datas :
          PostgresDataStore_store(pg_datastore, d).res =
              MongoDataStore_store(mongo_data, d).res
    /\ \A h \in Hashes :
          PostgresDataStore_retrieve(pg_datastore, h, FALSE) =
              MongoDataStore_retrieve(mongo_data, h, FALSE)

\* Both backends hold two records and have just refused bytes that
\* collide with one of them; a stored hash gives bytes, a free one
\* NoRecord.
C25_Witness ==
    /\ Cardinality(pg_datastore) = 2 /\ Cardinality(mongo_data) = 2
    /\ dlast.op = "store" /\ dlast.res.tag = "Collision"
    /\ MongoDataStore_store(mongo_data, dlast.arg).res.tag = "Collision"
    /\ \E h \in Hashes :
          MongoDataStore_retrieve(mongo_data, h, FALSE) = NoRecord

====
